---- MODULE Spec2Model ----
(***************************************************************************)
(* Model of vale (Valid Entity): the three procedural macros of            *)
(* vale-derive (derive(Validate), #[ruleset], rule!) and the validate      *)
(* routine they generate, executed statement by statement on an entity.    *)
(*                                                                         *)
(* Spec       one call of validate under every declaration of the model    *)
(* SpecAgain  up to MaxCalls successive calls on one instance              *)
(* SpecShared two threads calling validate on their own instances          *)
(* SpecRocket a request to a rocket route taking Valid<T>                  *)
(*                                                                         *)
(* Token streams are records, Rust Strings held in entity fields are       *)
(* sequences of one-character strings, messages are TLA+ strings.  A TLA+  *)
(* string cannot hold the character U+0060, so the grave accent of the     *)
(* message templates is written as an apostrophe throughout.               *)
(***************************************************************************)
EXTENDS Integers, Sequences, FiniteSets, TLC

\* ---------------------------------------------------------------- bounds
\* largest initial value of the numeric field
MaxInt == 2
\* longest initial value of the String field
MaxStrLen == 2
\* most rule invocations written in one derive declaration
MaxConds == 2
\* most statements in a hand-written ruleset body
MaxStmts == 2
\* most calls of validate made on one instance
MaxCalls == 3
\* most Deref wrappers between Valid and the struct
MaxDepth == 2

\* ------------------------------------------------------- the entity type
\* the characters of the initial strings; to_lowercase adds "a"
Chars == {" ", "A"}

SeqsUpTo(S, n) == UNION {[1..k -> S] : k \in 0..n}

\* struct Struct { value: i32, string: String, others: Vec<i32> }
Entities ==
    [value : 0..MaxInt, string : SeqsUpTo(Chars, MaxStrLen), others : {<<>>, <<3>>}]

\* ------------------------------------------------------ std / user code
\* char::is_whitespace on the characters of the model
is_whitespace(c) == c = " "

RECURSIVE trim_start(_)
trim_start(s) ==
    IF s = <<>> THEN s
    ELSE IF is_whitespace(Head(s)) THEN trim_start(Tail(s)) ELSE s

RECURSIVE trim_end(_)
trim_end(s) ==
    IF s = <<>> THEN s
    ELSE IF is_whitespace(s[Len(s)]) THEN trim_end(SubSeq(s, 1, Len(s) - 1)) ELSE s

\* str::trim: strips leading and trailing whitespace
trim(s) == trim_end(trim_start(s))

to_lowercase_char(c) == IF c = "A" THEN "a" ELSE c

\* str::to_lowercase
to_lowercase(s) == [i \in 1..Len(s) |-> to_lowercase_char(s[i])]

\* fn is_even(arg: &mut i32) -> bool { *arg % 2 == 0 }
\* a user predicate yields the value it leaves in the field and its boolean
is_even(arg) == [value |-> arg, ret |-> arg % 2 = 0]

\* fn add_element(v: &mut Vec<i32>) -> bool { v.push(3); true }
add_element(v) == [value |-> Append(v, 3), ret |-> TRUE]

\* #stream(&mut self.#name): the user predicate named f called on v
UserFn(f, v) ==
    CASE f = "is_even" -> is_even(v)
      [] f = "add_element" -> add_element(v)

\* the value of a literal token
Lit(tok) ==
    CASE tok = "0" -> 0
      [] tok = "1" -> 1
      [] tok = "2" -> 2
      [] tok = "3" -> 3

\* ------------------------------------------------- vale-derive: derive.rs
\* parse::Result / a panic of the macro: either way the build stops
ParseOk(v) == [ok |-> TRUE, v |-> v, err |-> ""]
ParseErr(e) == [ok |-> FALSE, v |-> <<>>, err |-> e]

UnwrapNone == "called Option::unwrap() on a None value"

\* the rule names whose match arm unwraps the content
ArgKinds == {"lt", "eq", "gt", "neq", "len_lt", "len_eq", "len_gt", "len_neq", "with"}

\* mutant: the arms of lt and gt are exchanged
KindOf_lt_gt_swapped(name) ==
    CASE name = "lt" -> "Gt"
      [] name = "eq" -> "Eq"
      [] name = "gt" -> "Lt"
      [] name = "neq" -> "Neq"
      [] name = "len_lt" -> "LenLt"
      [] name = "len_eq" -> "LenEq"
      [] name = "len_gt" -> "LenGt"
      [] name = "len_neq" -> "LenNeq"
      [] name = "with" -> "With"

KindOf(name) ==
    CASE name = "lt" -> "Lt"
      [] name = "eq" -> "Eq"
      [] name = "gt" -> "Gt"
      [] name = "neq" -> "Neq"
      [] name = "len_lt" -> "LenLt"
      [] name = "len_eq" -> "LenEq"
      [] name = "len_gt" -> "LenGt"
      [] name = "len_neq" -> "LenNeq"
      [] name = "with" -> "With"

\* mutant: a rule written without its argument is given the argument 0
ValidationKind_parse_defaults_argument(name, content) ==
    IF name \in ArgKinds
    THEN ParseOk([kind |-> KindOf(name),
                  stream |-> IF content = <<>> THEN "0" ELSE content[1]])
    ELSE IF name = "trim" THEN ParseOk([kind |-> "Trim", stream |-> ""])
    ELSE IF name = "to_lower_case" THEN ParseOk([kind |-> "ToLowerCase", stream |-> ""])
    ELSE ParseErr("unrecognised attribute: " \o name)

\* ValidationKind::parse(name, content); content is <<>> (None) or <<tokens>>
ValidationKind_parse(name, content) ==
    IF name \in ArgKinds
    THEN IF content = <<>>
         THEN ParseErr(UnwrapNone)
         ELSE ParseOk([kind |-> KindOf(name), stream |-> content[1]])
    ELSE IF name = "trim" THEN ParseOk([kind |-> "Trim", stream |-> ""])
    ELSE IF name = "to_lower_case" THEN ParseOk([kind |-> "ToLowerCase", stream |-> ""])
    ELSE ParseErr("unrecognised attribute: " \o name)

\* token trees the generated code is made of
\* self.#name <op> #stream   and   self.#name.len() <op> #stream
Cmp(lhs, field, op, rhs) == [e |-> "cmp", lhs |-> lhs, field |-> field, op |-> op, rhs |-> rhs]
\* #stream(&mut self.#name)
CallOn(f, field) == [e |-> "call", lhs |-> "value", field |-> field, op |-> f, rhs |-> ""]
\* format!("<pre>{}<post>", stringify!(#name))
Format(pre, name, post) == [e |-> "format", pre |-> pre, arg |-> name, post |-> post]
\* a string literal
LitStr(text) == [e |-> "lit", pre |-> text, arg |-> "", post |-> ""]
\* vale::rule!(<args>)
RuleMacro(args) == [mac |-> "rule", args |-> args, field |-> "", fn |-> ""]
\* self.#name = self.#name.<fn>().into();
Assign(field, fn) == [mac |-> "", args |-> <<>>, field |-> field, fn |-> fn]

\* ValidationKind::finish(self, name)
ValidationKind_finish(k, name) ==
    CASE k.kind = "Lt" ->
            RuleMacro(<<Cmp("value", name, "<", k.stream),
                        Format("Failed to validate field '", name, "', value too high")>>)
      [] k.kind = "Eq" ->
            RuleMacro(<<Cmp("value", name, "==", k.stream),
                        Format("Failed to validate field '", name, "', value incorrect")>>)
      [] k.kind = "Gt" ->
            RuleMacro(<<Cmp("value", name, ">", k.stream),
                        Format("Failed to validate field '", name, "', value too low")>>)
      [] k.kind = "Neq" ->
            RuleMacro(<<Cmp("value", name, "!=", k.stream),
                        Format("Failed to validate field '", name, "', value not allowed")>>)
      [] k.kind = "LenLt" ->
            RuleMacro(<<Cmp("len", name, "<", k.stream),
                        Format("Failed to validate field '", name, "', value too long")>>)
      [] k.kind = "LenEq" ->
            RuleMacro(<<Cmp("len", name, "==", k.stream),
                        Format("Failed to validate field '", name, "', value of incorrect length")>>)
      [] k.kind = "LenGt" ->
            RuleMacro(<<Cmp("len", name, ">", k.stream),
                        Format("Failed to validate field '", name, "', value too short")>>)
      [] k.kind = "LenNeq" ->
            RuleMacro(<<Cmp("len", name, "!=", k.stream),
                        Format("Failed to validate field '", name, "', value of disallowed length")>>)
      [] k.kind = "With" ->
            RuleMacro(<<CallOn(k.stream, name),
                        Format("Failed to validate field '", name, "', value did not pass test")>>)
      [] k.kind = "Trim" -> Assign(name, "trim")
      [] k.kind = "ToLowerCase" -> Assign(name, "to_lowercase")

\* Condition::finish(&self, field_name)
Condition_finish(c, field_name) ==
    LET kind == ValidationKind_parse(c.name, c.content)
    IN  IF kind.ok THEN ParseOk(ValidationKind_finish(kind.v, field_name)) ELSE kind

\* mutant: the first argument of an invocation is bound, not the last
RECURSIVE Condition_parse_nested_binds_first(_, _, _)
Condition_parse_nested_binds_first(nested, i, result) ==
    IF i > Len(nested) THEN ParseOk(result)
    ELSE LET nmeta == nested[i]
         IN  IF nmeta.meta = "List"
             THEN IF nmeta.nested = <<>>
                  THEN ParseErr(UnwrapNone)
                  ELSE Condition_parse_nested_binds_first(nested, i + 1,
                          Append(result, [name |-> nmeta.segments[Len(nmeta.segments)],
                                          content |-> <<nmeta.nested[1]>>]))
             ELSE IF nmeta.meta = "Path"
             THEN Condition_parse_nested_binds_first(nested, i + 1,
                          Append(result, [name |-> nmeta.segments[Len(nmeta.segments)],
                                          content |-> <<>>]))
             ELSE ParseErr("malformed validation")

\* the loop of Condition::parse over meta_list.nested, from element i on
RECURSIVE Condition_parse_nested(_, _, _)
Condition_parse_nested(nested, i, result) ==
    IF i > Len(nested) THEN ParseOk(result)
    ELSE LET nmeta == nested[i]
         IN  IF nmeta.meta = "List"
             THEN IF nmeta.nested = <<>>
                  THEN ParseErr(UnwrapNone)
                  ELSE Condition_parse_nested(nested, i + 1,
                          Append(result, [name |-> nmeta.segments[Len(nmeta.segments)],
                                          content |-> <<nmeta.nested[Len(nmeta.nested)]>>]))
             ELSE IF nmeta.meta = "Path"
             THEN Condition_parse_nested(nested, i + 1,
                          Append(result, [name |-> nmeta.segments[Len(nmeta.segments)],
                                          content |-> <<>>]))
             ELSE ParseErr("malformed validation")

\* Condition::parse(tokens: syn::Attribute)
Condition_parse(attr) ==
    IF attr.meta # "List" THEN ParseErr("validations not formatted correctly")
    ELSE IF Len(attr.path) # 1 THEN ParseErr("validations must start with #[validate]")
    ELSE IF attr.path[1] # "validate" THEN ParseErr("validations must start with #[validate]")
    ELSE Condition_parse_nested(attr.nested, 1, <<>>)

\* mutant: an attribute that is no validate list is passed over
RECURSIVE FieldValidation_parse_attrs_skips_foreign(_, _, _)
FieldValidation_parse_attrs_skips_foreign(attrs, i, conditions) ==
    IF i > Len(attrs) THEN ParseOk(conditions)
    ELSE LET r == Condition_parse(attrs[i])
         IN  IF r.ok
             THEN FieldValidation_parse_attrs_skips_foreign(attrs, i + 1, conditions \o r.v)
             ELSE IF r.err \in {"validations not formatted correctly",
                                "validations must start with #[validate]"}
             THEN FieldValidation_parse_attrs_skips_foreign(attrs, i + 1, conditions)
             ELSE r

\* the loop of FieldValidation::parse over field.attrs, from attribute i on
RECURSIVE FieldValidation_parse_attrs(_, _, _)
FieldValidation_parse_attrs(attrs, i, conditions) ==
    IF i > Len(attrs) THEN ParseOk(conditions)
    ELSE LET r == Condition_parse(attrs[i])
         IN  IF r.ok THEN FieldValidation_parse_attrs(attrs, i + 1, conditions \o r.v) ELSE r

\* FieldValidation::parse(field)
FieldValidation_parse(field) ==
    LET r == FieldValidation_parse_attrs(field.attrs, 1, <<>>)
    IN  IF r.ok THEN ParseOk([name |-> field.ident, conditions |-> r.v]) ELSE r

\* the loop of Validate::parse over the named fields, from field i on
RECURSIVE Validate_parse_fields(_, _, _)
Validate_parse_fields(fields, i, validations) ==
    IF i > Len(fields) THEN ParseOk(validations)
    ELSE LET r == FieldValidation_parse(fields[i])
         IN  IF r.ok THEN Validate_parse_fields(fields, i + 1, Append(validations, r.v)) ELSE r

\* <Validate as Parse>::parse(input)
Validate_parse(input) ==
    IF input.data # "Struct" THEN ParseErr("enums and unions are not supported")
    ELSE IF input.fields = "Unnamed" THEN ParseErr("can't validate a tuple struct")
    ELSE IF input.fields = "Unit" THEN ParseErr("can't validate a unit struct")
    ELSE Validate_parse_fields(input.named, 1, <<>>)

\* the flat_map of Validate::finish: every (condition, field name) in order
RECURSIVE FlatConditions(_, _)
FlatConditions(validations, i) ==
    IF i > Len(validations) THEN <<>>
    ELSE [j \in 1..Len(validations[i].conditions) |->
             [c |-> validations[i].conditions[j], name |-> validations[i].name]]
         \o FlatConditions(validations, i + 1)

\* the map of Validate::finish: c.finish(name).unwrap() for each pair
RECURSIVE FinishAll(_, _, _)
FinishAll(pairs, i, out) ==
    IF i > Len(pairs) THEN ParseOk(out)
    ELSE LET r == Condition_finish(pairs[i].c, pairs[i].name)
         IN  IF r.ok THEN FinishAll(pairs, i + 1, Append(out, r.v)) ELSE r

Reverse(q) == [i \in 1..Len(q) |-> q[Len(q) + 1 - i]]

\* mutant: the conditions are emitted last-declared first
Validate_finish_reversed(validations) ==
    FinishAll(Reverse(FlatConditions(validations, 1)), 1, <<>>)

\* Validate::finish(self): the body of the generated #[vale::ruleset] fn validate
Validate_finish(validations) == FinishAll(FlatConditions(validations, 1), 1, <<>>)

\* #[proc_macro_derive(Validate)] derive_validator
derive_validator(input) ==
    LET ds == Validate_parse(input)
    IN  IF ds.ok THEN Validate_finish(ds.v) ELSE ds

\* ---------------------------------------- vale-derive: rule.rs, ruleset.rs
\* mutant: the fallback message replaces a supplied one
Rule_parse_ignores_message(content) ==
    LET args == Len(content)
    IN  IF args # 1 /\ args # 2
        THEN ParseErr("rule macro requires 1 or 2 arguments")
        ELSE ParseOk([condition |-> content[1], msg |-> LitStr("No message provided")])

\* <Rule as Parse>::parse: the arguments of one rule! invocation
Rule_parse(content) ==
    LET args == Len(content)
    IN  IF args # 1 /\ args # 2
        THEN ParseErr("rule macro requires 1 or 2 arguments")
        ELSE ParseOk([condition |-> content[1],
                      msg |-> IF args = 2 THEN content[2]
                              ELSE LitStr("No message provided")])

\* Rule::finish: if !{condition} { errors.push({msg}.into()); }
Rule_finish(r) == [stmt |-> "if_not_push", condition |-> r.condition, msg |-> r.msg,
                   field |-> r.condition.field, fn |-> ""]

\* #[proc_macro] rule
rule(ts) ==
    LET ds == Rule_parse(ts)
    IN  IF ds.ok THEN ParseOk(Rule_finish(ds.v)) ELSE ds

\* expansion of the statements of a ruleset body, rule! invocations included
RECURSIVE ExpandStmts(_, _, _)
ExpandStmts(stmts, i, out) ==
    IF i > Len(stmts) THEN ParseOk(out)
    ELSE IF stmts[i].mac = "rule"
         THEN LET r == rule(stmts[i].args)
              IN  IF r.ok THEN ExpandStmts(stmts, i + 1, Append(out, r.v)) ELSE r
         ELSE ExpandStmts(stmts, i + 1,
                 Append(out, [stmt |-> "assign", condition |-> <<>>, msg |-> <<>>,
                              field |-> stmts[i].field, fn |-> stmts[i].fn]))

\* mutant: the assignments of the body are emitted before its rule! checks
Ruleset_finish_transforms_first(fn_body) ==
    ExpandStmts(SelectSeq(fn_body, LAMBDA st : st.mac = "")
                \o SelectSeq(fn_body, LAMBDA st : st.mac = "rule"), 1, <<>>)

\* Ruleset::finish: the statements keep their order between
\* `let mut errors = Vec::new();` and the final `if errors.len() != 0`
Ruleset_finish(fn_body) == ExpandStmts(fn_body, 1, <<>>)

\* ------------------------------------------------------------ the inputs
\* one nested meta of a #[validate(...)] attribute
MetaList(name, tok) == [meta |-> "List", segments |-> <<name>>, nested |-> <<tok>>]
MetaPath(name) == [meta |-> "Path", segments |-> <<name>>, nested |-> <<>>]

\* the rule invocations that type-check on each field of Struct
Invocations(field) ==
    CASE field = "value" ->
            {MetaList(n, "1") : n \in {"lt", "eq", "gt", "neq"}} \cup {MetaList("with", "is_even")}
      [] field = "string" ->
            {MetaList(n, "1") : n \in {"len_lt", "len_eq", "len_gt", "len_neq"}}
            \cup {MetaPath("trim"), MetaPath("to_lower_case")}
      [] field = "others" ->
            {MetaList("len_lt", "1"), MetaList("with", "add_element")}

ValidateAttr(nested) == [meta |-> "List", path |-> <<"validate">>, nested |-> nested]

\* a field with its rules written in one #[validate(...)] attribute
Field(ident, nested) ==
    [ident |-> ident, attrs |-> IF nested = <<>> THEN <<>> ELSE <<ValidateAttr(nested)>>]

NamedStruct(named) == [ident |-> "Struct", data |-> "Struct", fields |-> "Named", named |-> named]

\* the declarations of Struct with at most MaxConds rules, all well-typed
WellFormedInputs ==
    UNION {
      {NamedStruct(<<Field("value", a), Field("string", b), Field("others", c)>>) :
          a \in [1..k[1] -> Invocations("value")],
          b \in [1..k[2] -> Invocations("string")],
          c \in [1..k[3] -> Invocations("others")]} :
      k \in {t \in (0..MaxConds) \X (0..MaxConds) \X (0..MaxConds) : t[1] + t[2] + t[3] <= MaxConds}}

\* longer declarations, after the structs of tests/basic.rs and src/lib.rs
TestInputs ==
    { NamedStruct(<<Field("value", <<>>),
                    Field("string", <<MetaPath("trim"), MetaList("len_lt", "2"),
                                      MetaPath("to_lower_case")>>),
                    Field("others", <<>>)>>),
      NamedStruct(<<Field("value", <<MetaList("gt", "1")>>),
                    Field("string", <<MetaList("len_lt", "2"), MetaPath("trim")>>),
                    Field("others", <<MetaList("len_lt", "1"), MetaList("with", "add_element")>>)>>),
      NamedStruct(<<Field("value", <<MetaList("gt", "1")>>),
                    Field("string", <<MetaList("len_gt", "1"), MetaPath("to_lower_case"),
                                      MetaPath("trim")>>),
                    Field("others", <<MetaList("len_lt", "1")>>)>>) }

\* the declarations validated repeatedly: every plan of at most MaxConds
\* rules on the String field, and the longer declarations
AgainInputs ==
    {NamedStruct(<<Field("value", <<>>), Field("string", b), Field("others", <<>>)>>) :
        b \in SeqsUpTo(Invocations("string"), MaxConds)}
    \cup TestInputs

\* the declaration whose plan two threads validate with at once: a check,
\* a transform and a mutating predicate on two fields
SharedInputs ==
    { NamedStruct(<<Field("value", <<>>),
                    Field("string", <<MetaList("len_lt", "2"), MetaPath("trim")>>),
                    Field("others", <<MetaList("with", "add_element")>>)>>) }

\* declarations the derive rejects, and rules spread over two attributes
OtherInputs ==
    { [ident |-> "Struct", data |-> "Enum", fields |-> "Named", named |-> <<>>],
      [ident |-> "Struct", data |-> "Union", fields |-> "Named", named |-> <<>>],
      [ident |-> "Struct", data |-> "Struct", fields |-> "Unnamed", named |-> <<>>],
      [ident |-> "Struct", data |-> "Struct", fields |-> "Unit", named |-> <<>>],
      NamedStruct(<<Field("value", <<MetaPath("gt")>>)>>),
      NamedStruct(<<Field("value", <<MetaList("positive", "2")>>)>>),
      NamedStruct(<<Field("value", <<MetaList("gt", "2")>>),
                    [ident |-> "string", attrs |-> <<[meta |-> "Path", path |-> <<"validate">>, nested |-> <<>>]>>]>>),
      NamedStruct(<<[ident |-> "string",
                     attrs |-> <<ValidateAttr(<<MetaPath("trim")>>),
                                 ValidateAttr(<<MetaList("len_lt", "1")>>)>>]>>),
      NamedStruct(<<Field("value", <<[meta |-> "List", segments |-> <<"gt">>, nested |-> <<>>]>>)>>),
      NamedStruct(<<Field("string", <<MetaPath("trim"), MetaPath("len_lt")>>)>>),
      NamedStruct(<<Field("value", <<[meta |-> "Lit", segments |-> <<>>, nested |-> <<>>]>>)>>),
      NamedStruct(<<Field("value", <<>>),
                    [ident |-> "string",
                     attrs |-> <<ValidateAttr(<<MetaPath("trim")>>),
                                 [meta |-> "NameValue", path |-> <<"doc">>, nested |-> <<>>]>>]>>),
      NamedStruct(<<[ident |-> "value",
                     attrs |-> <<[meta |-> "List", path |-> <<"serde">>,
                                  nested |-> <<MetaPath("default")>>],
                                 ValidateAttr(<<MetaList("gt", "1")>>)>>]>>),
      NamedStruct(<<[ident |-> "value",
                     attrs |-> <<[meta |-> "List", path |-> <<"vale", "validate">>,
                                  nested |-> <<MetaList("gt", "1")>>]>>]>>) }

\* invocations with several arguments, an argument given to a transform,
\* and a rule name written with a leading path
BindingInputs ==
    { NamedStruct(<<Field("value", <<[meta |-> "List", segments |-> <<"lt">>, nested |-> <<"3", "1">>]>>),
                    Field("string", <<MetaList("trim", "1")>>)>>),
      NamedStruct(<<Field("value", <<[meta |-> "List", segments |-> <<"vale", "gt">>, nested |-> <<"1">>],
                                     [meta |-> "List", segments |-> <<"with">>,
                                      nested |-> <<"add_element", "is_even">>]>>),
                    Field("string", <<[meta |-> "Path", segments |-> <<"vale", "to_lower_case">>,
                                       nested |-> <<>>],
                                      [meta |-> "List", segments |-> <<"to_lower_case">>,
                                       nested |-> <<"1", "2">>]>>)>>) }

\* hand-written statements of a #[vale::ruleset] body, after tests/manual.rs
ManualStmts ==
    { RuleMacro(<<Cmp("value", "value", ">", "1"), LitStr("Too low")>>),
      RuleMacro(<<CallOn("is_even", "value"), LitStr("Not even!")>>),
      RuleMacro(<<Cmp("len", "string", "<", "1")>>),
      Assign("string", "trim") }

\* rule! invocations with a wrong number of arguments
BadRuleBodies ==
    { <<RuleMacro(<<>>)>>,
      <<RuleMacro(<<Cmp("value", "value", ">", "1"), LitStr("Too low"), LitStr("extra")>>)>> }

NoInput == [ident |-> "", data |-> "", fields |-> "", named |-> <<>>]

Sources ==
    {[kind |-> "derive", input |-> i, body |-> <<>>] : i \in WellFormedInputs \cup TestInputs \cup OtherInputs
                                                      \cup BindingInputs \cup SharedInputs}
    \cup {[kind |-> "manual", input |-> NoInput, body |-> b] :
             b \in SeqsUpTo(ManualStmts, MaxStmts) \cup BadRuleBodies}

\* ----------------------------------------------------- the generated code
\* mutant: the boolean of a user predicate is dropped
EvalCond_ignores_predicate(c, s) ==
    IF c.e = "call"
    THEN [value |-> UserFn(c.op, s[c.field]).value, ret |-> TRUE]
    ELSE LET operand == IF c.lhs = "len" THEN Len(s[c.field]) ELSE s[c.field]
             x == Lit(c.rhs)
         IN  [value |-> s[c.field],
              ret |-> CASE c.op = "<" -> operand < x
                        [] c.op = ">" -> operand > x
                        [] c.op = "==" -> operand = x
                        [] c.op = "!=" -> operand # x]

\* mutant: the comparison of eq is an assignment
EvalCond_eq_assigns(c, s) ==
    IF c.e = "call"
    THEN UserFn(c.op, s[c.field])
    ELSE LET operand == IF c.lhs = "len" THEN Len(s[c.field]) ELSE s[c.field]
             x == Lit(c.rhs)
         IN  [value |-> IF c.op = "==" /\ c.lhs = "value" THEN x ELSE s[c.field],
              ret |-> CASE c.op = "<" -> operand < x
                        [] c.op = ">" -> operand > x
                        [] c.op = "==" -> TRUE
                        [] c.op = "!=" -> operand # x]

\* the value and the boolean of a condition evaluated on entity s
EvalCond(c, s) ==
    IF c.e = "call"
    THEN UserFn(c.op, s[c.field])
    ELSE LET operand == IF c.lhs = "len" THEN Len(s[c.field]) ELSE s[c.field]
             x == Lit(c.rhs)
         IN  [value |-> s[c.field],
              ret |-> CASE c.op = "<" -> operand < x
                        [] c.op = ">" -> operand > x
                        [] c.op = "==" -> operand = x
                        [] c.op = "!=" -> operand # x]

\* { #msg }.into(): format! puts the field name into the template
EvalMsg(m) == m.pre \o m.arg \o m.post

\* mutant: trim strips the leading whitespace only
ApplyFn_trim_start_only(fn, v) ==
    CASE fn = "trim" -> trim_start(v)
      [] fn = "to_lowercase" -> to_lowercase(v)

\* mutant: trim strips a single leading whitespace character
ApplyFn_trim_drops_one_space(fn, v) ==
    CASE fn = "trim" -> IF v # <<>> /\ is_whitespace(Head(v)) THEN Tail(v) ELSE v
      [] fn = "to_lowercase" -> to_lowercase(v)

\* self.#name.<fn>().into()
ApplyFn(fn, v) ==
    CASE fn = "trim" -> trim(v)
      [] fn = "to_lowercase" -> to_lowercase(v)

\* validate's result
None == [tag |-> "None", list |-> <<>>]
Ok == [tag |-> "Ok", list |-> <<>>]
Err(list) == [tag |-> "Err", list |-> list]

NoEntity == [value |-> 0, string |-> <<>>, others |-> <<>>]

\* a thread that has not called validate
NoCall == [phase |-> "built", self |-> NoEntity, errors |-> <<>>, ip |-> 0,
           result |-> None, self0 |-> NoEntity, log |-> <<>>]


\* ------------------------------------------- vale: rocket_impls.rs, the data
\* no error value
NoError == [variant |-> "", t |-> "", list |-> <<>>]

\* a value of T::Error, the error type of the inner extractor
InnerError(t) == [variant |-> "T::Error", t |-> t, list |-> <<>>]

\* ValidationError::FromDataError(t)
FromDataError(t) == [variant |-> "FromDataError", t |-> t, list |-> <<>>]

\* ValidationError::ValidationError(msgs), also what msg.into() makes
ValidationError(msgs) == [variant |-> "ValidationError", t |-> "", list |-> msgs]

\* mutant: the inner error is wrapped in the variant kept for messages
from_data_error_as_validation(f) == ValidationError(<<f.t>>)

\* ValidationError::from_data_error(t)
from_data_error(f) == FromDataError(f.t)

\* ValidationError::get_t(self): the inner error, or a panic
get_t(f) ==
    IF f.variant = "FromDataError"
    THEN [panic |-> FALSE, t |-> InnerError(f.t)]
    ELSE [panic |-> TRUE, t |-> NoError]

\* rocket's Outcome
Success(v) == [tag |-> "Success", status |-> "", value |-> v, error |-> NoError]
Failure(s, f) == [tag |-> "Failure", status |-> s, value |-> NoEntity, error |-> f]
Forward == [tag |-> "Forward", status |-> "", value |-> NoEntity, error |-> NoError]
NoOutcome == [tag |-> "None", status |-> "", value |-> NoEntity, error |-> NoError]

\* rocket's Transform: Owned(outcome) or Borrowed(outcome)
Transformed(form, out) == [form |-> form, out |-> out]
NoTransform == Transformed("", NoOutcome)

\* the statuses and errors an inner extractor such as Json<T> fails with
InnerStatuses == {"BadRequest", "UnprocessableEntity"}
InnerErrors == {"Io", "Parse"}

\* what T::transform(r, d) can return
T_transform ==
    {Transformed(form, out) :
        form \in {"Owned", "Borrowed"},
        out \in {Success(NoEntity), Forward}
                \cup {Failure(s, InnerError(t)) : s \in InnerStatuses, t \in InnerErrors}}

\* what T::from_data(r, o) can return: a transform that did not succeed is
\* passed on, a successful one is parsed into an entity or fails
T_from_data(o) ==
    IF o.out.tag = "Success"
    THEN {Success(e) : e \in Entities}
         \cup {Failure(s, InnerError("Parse")) : s \in InnerStatuses}
         \cup {Forward}
    ELSE {o.out}

VARIABLES
    src,       \* the item the macros are applied to
    phase,     \* "source", "derived", "built", "failed", "running", "returned"
    item,      \* the body of fn validate before #[ruleset] expands it
    code,      \* the statements of the expanded fn validate
    build_err, \* the error that stopped the build
    self,      \* the entity validate is called on
    errors,    \* `errors` of the running call
    ip,        \* index in code of the next statement
    result,    \* what validate returned
    self0,     \* history: the entity when the call started
    log,       \* history: one record per executed statement
    peer,      \* the call of a second thread, switched out
    past,      \* history: the calls already completed on this instance
    stage,     \* position of a request in Valid<T>'s FromData
    wraps,     \* number of Deref wrappers between Valid and Struct in the route
    layer,     \* how many of them validate has passed through
    xform,     \* what Valid<T>::transform returned
    inner,     \* the outcome of the inner extractor T
    outcome,   \* the outcome Valid<T> hands to rocket
    handled    \* what rocket did with the request

\* the state of one call of validate
call == <<phase, self, errors, ip, result, self0, log>>

\* the state of a request to a route taking Valid<T>
rocket == <<stage, wraps, layer, xform, inner, outcome, handled>>

\* everything outside one thread's call of validate
env == <<peer, past, rocket>>

vars == <<src, phase, item, code, build_err, self, errors, ip, result, self0, log, env>>

Init ==
    /\ src \in Sources
    /\ phase = "source"
    /\ item = <<>>
    /\ code = <<>>
    /\ build_err = ""
    /\ self = NoEntity
    /\ errors = <<>>
    /\ ip = 0
    /\ result = None
    /\ self0 = NoEntity
    /\ log = <<>>
    /\ peer = NoCall
    /\ past = <<>>
    /\ stage = "none"
    /\ wraps = 0
    /\ layer = 0
    /\ xform = NoTransform
    /\ inner = NoOutcome
    /\ outcome = NoOutcome
    /\ handled = NoOutcome

\* derive(Validate) expands on the struct; a hand-written impl needs no derive
Derive ==
    /\ phase = "source"
    /\ LET r == IF src.kind = "derive" THEN derive_validator(src.input) ELSE ParseOk(src.body)
       IN  IF r.ok
           THEN /\ phase' = "derived"
                /\ item' = r.v
                /\ build_err' = build_err
           ELSE /\ phase' = "failed"
                /\ item' = item
                /\ build_err' = r.err
    /\ UNCHANGED <<src, code, self, errors, ip, result, self0, log>>
    /\ UNCHANGED env

\* #[vale::ruleset] and the rule! invocations of the body expand
Expand ==
    /\ phase = "derived"
    /\ LET r == Ruleset_finish(item)
       IN  IF r.ok
           THEN /\ phase' = "built"
                /\ code' = r.v
                /\ build_err' = build_err
           ELSE /\ phase' = "failed"
                /\ code' = code
                /\ build_err' = r.err
    /\ UNCHANGED <<src, item, self, errors, ip, result, self0, log>>
    /\ UNCHANGED env

\* entity.validate() is entered: let mut errors = Vec::new();
Call ==
    /\ phase = "built"
    /\ \E e \in Entities :
          /\ self' = e
          /\ self0' = e
    /\ phase' = "running"
    /\ errors' = <<>>
    /\ ip' = 1
    /\ log' = <<>>
    /\ UNCHANGED <<src, item, code, build_err, result>>
    /\ UNCHANGED env

\* mutant: a failed check returns from the call at once
Step_halts_on_failure ==
    /\ phase = "running"
    /\ ip <= Len(code)
    /\ LET st == code[ip]
       IN  IF st.stmt = "if_not_push"
           THEN LET r == EvalCond(st.condition, self)
                IN  /\ self' = [self EXCEPT ![st.field] = r.value]
                    /\ errors' = IF ~r.ret THEN Append(errors, EvalMsg(st.msg)) ELSE errors
                    /\ log' = Append(log, [i |-> ip, ret |-> r.ret, pre |-> self])
                    /\ ip' = IF ~r.ret THEN Len(code) + 1 ELSE ip + 1
           ELSE /\ self' = [self EXCEPT ![st.field] = ApplyFn(st.fn, self[st.field])]
                /\ errors' = errors
                /\ log' = Append(log, [i |-> ip, ret |-> TRUE, pre |-> self])
                /\ ip' = ip + 1
    /\ UNCHANGED <<src, phase, item, code, build_err, result, self0>>
    /\ UNCHANGED env

\* the statement at ip runs
Step ==
    /\ phase = "running"
    /\ ip <= Len(code)
    /\ LET st == code[ip]
       IN  IF st.stmt = "if_not_push"
           THEN LET r == EvalCond(st.condition, self)
                IN  /\ self' = [self EXCEPT ![st.field] = r.value]
                    /\ errors' = IF ~r.ret THEN Append(errors, EvalMsg(st.msg)) ELSE errors
                    /\ log' = Append(log, [i |-> ip, ret |-> r.ret, pre |-> self])
           ELSE /\ self' = [self EXCEPT ![st.field] = ApplyFn(st.fn, self[st.field])]
                /\ errors' = errors
                /\ log' = Append(log, [i |-> ip, ret |-> TRUE, pre |-> self])
    /\ ip' = ip + 1
    /\ UNCHANGED <<src, phase, item, code, build_err, result, self0>>
    /\ UNCHANGED env

\* mutant: a single message does not make the call fail
Return_needs_two_errors ==
    /\ phase = "running"
    /\ ip > Len(code)
    /\ result' = IF Len(errors) > 1 THEN Err(errors) ELSE Ok
    /\ phase' = "returned"
    /\ UNCHANGED <<src, item, code, build_err, self, errors, ip, self0, log>>
    /\ UNCHANGED env

\* mutant: a failing call restores the entity it was given
Return_rolls_back ==
    /\ phase = "running"
    /\ ip > Len(code)
    /\ result' = IF Len(errors) # 0 THEN Err(errors) ELSE Ok
    /\ self' = IF Len(errors) # 0 THEN self0 ELSE self
    /\ phase' = "returned"
    /\ UNCHANGED <<src, item, code, build_err, errors, ip, self0, log>>
    /\ UNCHANGED env

\* if errors.len() != 0 { Err(errors) } else { Ok(()) }
Return ==
    /\ phase = "running"
    /\ ip > Len(code)
    /\ result' = IF Len(errors) # 0 THEN Err(errors) ELSE Ok
    /\ phase' = "returned"
    /\ UNCHANGED <<src, item, code, build_err, self, errors, ip, self0, log>>
    /\ UNCHANGED env

Next == Derive \/ Expand \/ Call \/ Step \/ Return

Spec == Init /\ [][Next]_vars

TypeOK ==
    /\ phase \in {"source", "derived", "built", "failed", "running", "returned"}
    /\ ip \in 0..(Len(code) + 1)
    /\ result.tag \in {"None", "Ok", "Err"}

\* what a completed call is remembered by
Completed(c) == [self0 |-> c.self0, self |-> c.self, result |-> c.result]

\* a declaration of AgainInputs, before the macros expand
InitAgain == Init /\ src.kind = "derive" /\ src.input \in AgainInputs

\* mutant: the error list outlives the call that filled it
CallAgain_keeps_errors ==
    /\ phase = "returned"
    /\ Len(past) + 1 < MaxCalls
    /\ past' = Append(past, Completed([self0 |-> self0, self |-> self, result |-> result]))
    /\ phase' = "running"
    /\ self0' = self
    /\ errors' = errors
    /\ ip' = 1
    /\ log' = <<>>
    /\ result' = None
    /\ UNCHANGED <<src, item, code, build_err, self, peer, rocket>>

\* validate is entered again on the instance the last call returned from:
\* let mut errors = Vec::new();
CallAgain ==
    /\ phase = "returned"
    /\ Len(past) + 1 < MaxCalls
    /\ past' = Append(past, Completed([self0 |-> self0, self |-> self, result |-> result]))
    /\ phase' = "running"
    /\ self0' = self
    /\ errors' = <<>>
    /\ ip' = 1
    /\ log' = <<>>
    /\ result' = None
    /\ UNCHANGED <<src, item, code, build_err, self, peer, rocket>>

NextAgain == Derive \/ Expand \/ Call \/ Step \/ Return \/ CallAgain

SpecAgain == InitAgain /\ [][NextAgain]_vars

InitShared == Init /\ src.kind = "derive" /\ src.input \in SharedInputs

\* the running thread's call, as a record
ThisCall ==
    [phase |-> phase, self |-> self, errors |-> errors, ip |-> ip,
     result |-> result, self0 |-> self0, log |-> log]

\* mutant: `errors` is one list shared by the threads
Switch_shares_errors ==
    /\ phase \in {"built", "running", "returned"}
    /\ peer' = ThisCall
    /\ phase' = peer.phase
    /\ self' = peer.self
    /\ errors' = errors
    /\ ip' = peer.ip
    /\ result' = peer.result
    /\ self0' = peer.self0
    /\ log' = peer.log
    /\ UNCHANGED <<src, item, code, build_err, past, rocket>>

\* execution passes to the other thread: each thread has its own &mut self
\* and its own local `errors`; the expanded code is common to both
Switch ==
    /\ phase \in {"built", "running", "returned"}
    /\ peer' = ThisCall
    /\ phase' = peer.phase
    /\ self' = peer.self
    /\ errors' = peer.errors
    /\ ip' = peer.ip
    /\ result' = peer.result
    /\ self0' = peer.self0
    /\ log' = peer.log
    /\ UNCHANGED <<src, item, code, build_err, past, rocket>>

NextShared == Derive \/ Expand \/ Call \/ Step \/ Return \/ Switch

SpecShared == InitShared /\ [][NextShared]_vars

\* ------------------------------------ a request to a route taking Valid<T>
\* the declarations of the struct the route extracts
RocketInputs == TestInputs \cup SharedInputs

InitRocket == Init /\ src.kind = "derive" /\ src.input \in RocketInputs

\* the route is mounted; its data type is Valid<T> with T the struct inside
\* `wraps` Deref wrappers such as Json
Mount ==
    /\ phase = "built" /\ stage = "none"
    /\ wraps' \in 0..MaxDepth
    /\ stage' = "mounted"
    /\ UNCHANGED <<src, item, code, build_err, call, peer, past, layer, xform, inner,
                   outcome, handled>>

\* <Valid<T> as FromData>::transform
Valid_transform ==
    /\ stage = "mounted"
    /\ \E o \in T_transform :
          xform' = Transformed(o.form,
                      IF o.out.tag = "Failure"
                      THEN Failure(o.out.status, from_data_error(o.out.error))
                      ELSE o.out)
    /\ stage' = "transformed"
    /\ UNCHANGED <<src, item, code, build_err, call, peer, past, wraps, layer, inner,
                   outcome, handled>>

\* <Valid<T> as FromData>::from_data up to the call of validate
Valid_from_data ==
    /\ stage = "transformed"
    /\ IF xform.out.tag = "Failure" /\ get_t(xform.out.error).panic
       THEN /\ stage' = "panicked"
            /\ UNCHANGED <<inner, outcome>>
       ELSE LET given == Transformed(xform.form,
                            IF xform.out.tag = "Failure"
                            THEN Failure(xform.out.status, get_t(xform.out.error).t)
                            ELSE xform.out)
            IN  \E r \in T_from_data(given) :
                   /\ inner' = r
                   /\ CASE r.tag = "Success" ->
                              /\ stage' = "extracted"
                              /\ outcome' = outcome
                        [] r.tag = "Failure" ->
                              /\ stage' = "done"
                              /\ outcome' = Failure(r.status, from_data_error(r.error))
                        [] r.tag = "Forward" ->
                              /\ stage' = "done"
                              /\ outcome' = Forward
    /\ UNCHANGED <<src, item, code, build_err, call, peer, past, wraps, layer, xform, handled>>

\* validate of the blanket impl for U: Deref + DerefMut: self.deref_mut()
Deref_validate ==
    /\ stage = "extracted"
    /\ layer < wraps
    /\ layer' = layer + 1
    /\ UNCHANGED <<src, item, code, build_err, call, peer, past, stage, wraps, xform, inner,
                   outcome, handled>>

\* the struct's validate is entered on the extracted value:
\* let mut errors = Vec::new();
CallInner ==
    /\ stage = "extracted"
    /\ layer = wraps
    /\ phase = "built"
    /\ self' = inner.value
    /\ self0' = inner.value
    /\ phase' = "running"
    /\ errors' = <<>>
    /\ ip' = 1
    /\ log' = <<>>
    /\ stage' = "validating"
    /\ UNCHANGED <<src, item, code, build_err, result, peer, past, wraps, layer, xform, inner,
                   outcome, handled>>

\* mutant: the blanket impl drops what the inner validate returned
Deref_return_answers_ok ==
    /\ stage = "validating"
    /\ phase = "returned"
    /\ layer > 0
    /\ layer' = layer - 1
    /\ result' = Ok
    /\ UNCHANGED <<src, item, code, build_err, phase, self, errors, ip, self0, log, peer, past,
                   stage, wraps, xform, inner, outcome, handled>>

\* validate of the blanket impl returns what t.validate() returned
Deref_return ==
    /\ stage = "validating"
    /\ phase = "returned"
    /\ layer > 0
    /\ layer' = layer - 1
    /\ UNCHANGED <<src, item, code, build_err, call, peer, past, stage, wraps, xform, inner,
                   outcome, handled>>

\* mutant: the result of validate is not looked at
Valid_outcome_always_success ==
    /\ stage = "validating"
    /\ phase = "returned"
    /\ layer = 0
    /\ outcome' = Success(self)
    /\ stage' = "done"
    /\ UNCHANGED <<src, item, code, build_err, call, peer, past, wraps, layer, xform, inner,
                   handled>>

\* <Valid<T> as FromData>::from_data after inner.validate() has returned
Valid_outcome ==
    /\ stage = "validating"
    /\ phase = "returned"
    /\ layer = 0
    /\ outcome' = IF result.tag = "Err"
                  THEN Failure("BadRequest", ValidationError(result.list))
                  ELSE Success(self)
    /\ stage' = "done"
    /\ UNCHANGED <<src, item, code, build_err, call, peer, past, wraps, layer, xform, inner,
                   handled>>

\* rocket invokes the route's handler with the extracted Valid<T>
Handler ==
    /\ stage = "done"
    /\ outcome.tag = "Success"
    /\ handled' = [tag |-> "Invoked", status |-> "Ok", value |-> outcome.value,
                   error |-> NoError]
    /\ stage' = "handled"
    /\ UNCHANGED <<src, item, code, build_err, call, peer, past, wraps, layer, xform, inner,
                   outcome>>

\* rocket answers a Failure with its status and a Forward, no other route
\* being mounted, with NotFound
Respond ==
    /\ stage = "done"
    /\ outcome.tag \in {"Failure", "Forward"}
    /\ handled' = [tag |-> "Rejected",
                   status |-> IF outcome.tag = "Failure" THEN outcome.status ELSE "NotFound",
                   value |-> NoEntity, error |-> NoError]
    /\ stage' = "responded"
    /\ UNCHANGED <<src, item, code, build_err, call, peer, past, wraps, layer, xform, inner,
                   outcome>>

NextRocket ==
    \/ Derive \/ Expand \/ Mount
    \/ Valid_transform \/ Valid_from_data
    \/ Deref_validate \/ CallInner \/ Step \/ Return \/ Deref_return
    \/ Valid_outcome \/ Handler \/ Respond

SpecRocket == InitRocket /\ [][NextRocket]_vars

\* ------------------------------------------------- what the claims refer to
Last(q) == q[Len(q)]

\* the rule invocations of one attribute, as written
RulesOfAttr(ident, attr) ==
    [k \in 1..Len(attr.nested) |->
        [field |-> ident,
         name |-> Last(attr.nested[k].segments),
         arg |-> IF attr.nested[k].nested = <<>> THEN "" ELSE Last(attr.nested[k].nested)]]

RECURSIVE RulesOfAttrs(_, _, _)
RulesOfAttrs(ident, attrs, j) ==
    IF j > Len(attrs) THEN <<>>
    ELSE RulesOfAttr(ident, attrs[j]) \o RulesOfAttrs(ident, attrs, j + 1)

RECURSIVE RulesOfFields(_, _)
RulesOfFields(named, i) ==
    IF i > Len(named) THEN <<>>
    ELSE RulesOfAttrs(named[i].ident, named[i].attrs, 1) \o RulesOfFields(named, i + 1)

\* the plan of the declaration: its rules in field-then-rule order
DeclaredPlan == RulesOfFields(src.input.named, 1)

\* number of steps of the plan, declared or hand-written
PlanLen == IF src.kind = "derive" THEN Len(DeclaredPlan) ELSE Len(src.body)

\* the catalog of section 4.1: message of a check, field name substituted
CatalogText(name) ==
    CASE name = "lt" -> "value too high"
      [] name = "gt" -> "value too low"
      [] name = "eq" -> "value incorrect"
      [] name = "neq" -> "value not allowed"
      [] name = "len_lt" -> "value too long"
      [] name = "len_gt" -> "value too short"
      [] name = "len_eq" -> "value of incorrect length"
      [] name = "len_neq" -> "value of disallowed length"
      [] name = "with" -> "value did not pass test"
      [] OTHER -> "n/a"

CatalogMessage(r) == "Failed to validate field '" \o r.field \o "', " \o CatalogText(r.name)

\* the statements whose check evaluated to false, in the order they ran
RECURSIVE FailedFrom(_, _)
FailedFrom(l, k) ==
    IF k > Len(l) THEN <<>>
    ELSE (IF l[k].ret THEN <<>> ELSE <<l[k].i>>) \o FailedFrom(l, k + 1)

Failed == FailedFrom(log, 1)

Returned == phase = "returned"

\* ------------------------------------------------------------------ claims
\* C1: the list validate returns in Err is the sequence of the catalog
\* messages of the checks that evaluated to false, one per failing check,
\* in field-then-rule declaration order; a single failing check gives the
\* one-element list holding that rule's message for its field.
C1_ErrListIsFailedChecksInOrder ==
    (Returned /\ src.kind = "derive") =>
        /\ (Failed # <<>> \/ result.tag = "Err") =>
              result = Err([n \in 1..Len(Failed) |-> CatalogMessage(DeclaredPlan[Failed[n]])])
        /\ Len(Failed) = 1 => result.list = <<CatalogMessage(DeclaredPlan[Failed[1]])>>

\* two checks on different fields failed and both messages came back
C1_Witness ==
    /\ Returned /\ src.kind = "derive"
    /\ Len(Failed) = 2
    /\ DeclaredPlan[Failed[1]].field # DeclaredPlan[Failed[2]].field
    /\ result.tag = "Err" /\ Len(result.list) = 2

\* C2: a failed check never halts the call: when validate returns, every
\* step of the plan has run exactly once, in order, also after a failure.
C2_AllStepsRunOnceAfterFailure ==
    (Returned /\ Failed # <<>>) =>
        /\ Len(log) = PlanLen
        /\ \A k \in 1..Len(log) : log[k].i = k

\* the first step failed and two more steps ran after it
C2_Witness ==
    /\ Returned
    /\ Len(log) = 5
    /\ ~log[1].ret
    /\ code[3].stmt = "assign" /\ code[4].stmt = "if_not_push" /\ ~log[4].ret

\* C3: validate returns Ok(()) iff no message was appended during the call,
\* else Err with the whole accumulated list; Err never carries an empty list.
C3_OkIffNoMessage ==
    Returned =>
        /\ result.tag \in {"Ok", "Err"}
        /\ result = Ok <=> Failed = <<>>
        /\ result.tag = "Err" => (result.list = errors /\ Len(result.list) = Len(Failed)
                                   /\ result.list # <<>>)

\* both outcomes: an Err carrying two messages
C3_Witness == Returned /\ result.tag = "Err" /\ Len(result.list) = 2 /\ Len(Failed) = 2

\* section 4.1: the value rule r leaves in a field holding v
CatalogMutate(r, v) ==
    CASE r.name = "trim" -> trim(v)
      [] r.name = "to_lower_case" -> to_lowercase(v)
      [] r.name = "with" -> UserFn(r.arg, v).value
      [] OTHER -> v

\* the same, counting only the transform steps trim and to_lower_case
TransformOnly(r, v) ==
    CASE r.name = "trim" -> trim(v)
      [] r.name = "to_lower_case" -> to_lowercase(v)
      [] OTHER -> v

\* section 4.1: whether check r passes on a field holding v
CatalogHolds(r, v) ==
    CASE r.name = "lt" -> v < Lit(r.arg)
      [] r.name = "gt" -> v > Lit(r.arg)
      [] r.name = "eq" -> v = Lit(r.arg)
      [] r.name = "neq" -> v # Lit(r.arg)
      [] r.name = "len_lt" -> Len(v) < Lit(r.arg)
      [] r.name = "len_gt" -> Len(v) > Lit(r.arg)
      [] r.name = "len_eq" -> Len(v) = Lit(r.arg)
      [] r.name = "len_neq" -> Len(v) # Lit(r.arg)
      [] r.name = "with" -> UserFn(r.arg, v).ret
      [] OTHER -> TRUE

\* entity e after the mutations of the first k steps of plan
RECURSIVE EntityAfter(_, _, _)
EntityAfter(plan, k, e) ==
    IF k = 0 THEN e
    ELSE LET p == EntityAfter(plan, k - 1, e)
             f == plan[k].field
         IN  [p EXCEPT ![f] = CatalogMutate(plan[k], p[f])]

\* entity e after the transform steps among the first k steps of plan
RECURSIVE TransformedAfter(_, _, _)
TransformedAfter(plan, k, e) ==
    IF k = 0 THEN e
    ELSE LET p == TransformedAfter(plan, k - 1, e)
             f == plan[k].field
         IN  [p EXCEPT ![f] = TransformOnly(plan[k], p[f])]

IsRule(r, field, name) == r.field = field /\ r.name = name

TooLong(field) == "Failed to validate field '" \o field \o "', value too long"

InList(m, list) == \E n \in 1..Len(list) : list[n] = m

\* C4: a check is evaluated on the field as left by the steps declared
\* before it and by none declared after it; on a String field [trim,
\* len_lt(n)] passes whenever the trimmed length is below n, and
\* [len_lt(n), trim] fails with the too-long message whenever the raw
\* length is not below n.
C4_CheckSeesEarlierStepsOnly ==
    (src.kind = "derive" /\ phase \in {"running", "returned"}) =>
        /\ \A k \in 1..Len(log) :
              LET r == DeclaredPlan[k]
                  seen == EntityAfter(DeclaredPlan, k - 1, self0)
              IN  /\ log[k].pre = seen
                  /\ log[k].ret = CatalogHolds(r, seen[r.field])
        /\ Returned =>
              \A k \in 1..(Len(DeclaredPlan) - 1) :
                 (\A j \in 1..(k - 1) : DeclaredPlan[j].field # "string") =>
                    /\ (IsRule(DeclaredPlan[k], "string", "trim")
                        /\ IsRule(DeclaredPlan[k + 1], "string", "len_lt")) =>
                          (Len(trim(self0.string)) < Lit(DeclaredPlan[k + 1].arg)
                             => (log[k + 1].ret /\ ~InList(TooLong("string"), result.list)))
                    /\ (IsRule(DeclaredPlan[k], "string", "len_lt")
                        /\ IsRule(DeclaredPlan[k + 1], "string", "trim")) =>
                          (~(Len(self0.string) < Lit(DeclaredPlan[k].arg))
                             => (result.tag = "Err" /\ InList(TooLong("string"), result.list)))

\* [len_lt(n), trim] failed on a string whose trimmed length is below n
C4_Witness ==
    /\ Returned /\ src.kind = "derive"
    /\ \E k \in 1..(Len(DeclaredPlan) - 1) :
          /\ IsRule(DeclaredPlan[k], "string", "len_lt")
          /\ IsRule(DeclaredPlan[k + 1], "string", "trim")
          /\ Len(trim(self0.string)) < Lit(DeclaredPlan[k].arg)
          /\ ~log[k].ret
          /\ self.string # self0.string
    /\ InList(TooLong("string"), result.list)

\* C5: mutations are not rolled back: when validate returns Err every
\* field holds what its transforms and with-predicate mutations, applied in
\* declared order, make of its initial value, as on success.
C5_ErrKeepsMutations ==
    (Returned /\ src.kind = "derive" /\ result.tag = "Err") =>
        self = EntityAfter(DeclaredPlan, Len(DeclaredPlan), self0)

\* a transform declared after the failing check changed its field
C5_Witness ==
    /\ Returned /\ src.kind = "derive" /\ result.tag = "Err"
    /\ \E k \in 1..Len(log) : \E j \in (k + 1)..Len(log) :
          /\ ~log[k].ret
          /\ code[j].stmt = "assign"
          /\ log[j].pre[code[j].field] # self[code[j].field]

AllChecksPassed == \A k \in 1..Len(log) : log[k].ret

\* C6 as stated: if every check passes, validate returns Ok(()) and each
\* field's final value is the composition of that field's transforms,
\* applied in declared order to its initial value.
C6_Original ==
    (Returned /\ src.kind = "derive" /\ AllChecksPassed) =>
        /\ result = Ok
        /\ self = TransformedAfter(DeclaredPlan, Len(DeclaredPlan), self0)

\* C6 amended: if every check passes, validate returns Ok(()) and each
\* field's final value is what that field's transforms and the mutations of
\* its with-predicates, applied in declared order, make of its initial value.
C6_OkGivesTransformsAndWithMutations ==
    (Returned /\ src.kind = "derive" /\ AllChecksPassed) =>
        /\ result = Ok
        /\ self = EntityAfter(DeclaredPlan, Len(DeclaredPlan), self0)

\* [trim, len_lt(2), to_lower_case] turned " A" into "a" and returned Ok
C6_Witness ==
    /\ Returned /\ src.kind = "derive" /\ result = Ok
    /\ Len(DeclaredPlan) = 3
    /\ IsRule(DeclaredPlan[1], "string", "trim")
    /\ IsRule(DeclaredPlan[2], "string", "len_lt")
    /\ IsRule(DeclaredPlan[3], "string", "to_lower_case")
    /\ self0.string = <<" ", "A">>
    /\ self.string = <<"a">>

\* a statement of a derived validate is about to run
DerivedStepAt == phase = "running" /\ src.kind = "derive" /\ ip <= Len(DeclaredPlan)

C8_NeqComparesLen ==
    (src.kind = "derive" /\ phase \in {"built", "running", "returned"}) =>
        \A k \in 1..Len(code) :
           DeclaredPlan[k].name = "neq" =>
              (code[k].stmt = "if_not_push" /\ code[k].condition.lhs = "len")

\* the message a hand-written rule! invocation supplies, or the fallback
GivenMessage(st) ==
    IF Len(st.args) = 2 THEN st.args[2].pre ELSE "No message provided"

\* C9: rule!(cond[, msg]) appends exactly one message when cond is false,
\* the supplied message unmodified or "No message provided" when none was
\* given, and nothing when cond is true; an invocation with any other number
\* of arguments never builds.
C9_RulePrimitive ==
    src.kind = "manual" =>
        /\ phase \in {"built", "running", "returned"} =>
              \A i \in 1..Len(src.body) :
                 src.body[i].mac = "rule" => Len(src.body[i].args) \in {1, 2}
        /\ phase \in {"running", "returned"} =>
              errors = [n \in 1..Len(Failed) |-> GivenMessage(src.body[Failed[n]])]

\* a rule with a message and one without both failed
C9_Witness ==
    /\ Returned /\ src.kind = "manual"
    /\ result = Err(<<"Too low", "No message provided">>)

DidNotPass(field) == "Failed to validate field '" \o field \o "', value did not pass test"

\* C10: a with(f) step calls f on the field and treats its boolean like a
\* built-in check: false appends the did-not-pass message for the field,
\* true appends nothing, and either way the next step is what runs next;
\* is_even yields the message on an odd value and none on an even one.
C10_WithTreatedAsCheck ==
    [][ (DerivedStepAt /\ DeclaredPlan[ip].name = "with") =>
           LET r == DeclaredPlan[ip]
               out == UserFn(r.arg, self[r.field])
           IN  /\ self' = [self EXCEPT ![r.field] = out.value]
               /\ errors' = IF out.ret THEN errors ELSE Append(errors, DidNotPass(r.field))
               /\ r.arg = "is_even" => (errors' = errors <=> self[r.field] % 2 = 0)
               /\ ip' = ip + 1
               /\ phase' = "running" ]_vars

\* with(is_even) failed on an odd value and the step after it still ran
C10_Witness ==
    /\ Returned /\ src.kind = "derive"
    /\ Len(log) = 2
    /\ DeclaredPlan[1].name = "with" /\ DeclaredPlan[1].arg = "is_even"
    /\ self0.value % 2 = 1
    /\ ~log[1].ret
    /\ result.list[1] = DidNotPass("value")

\* the invocations written in one attribute that carry a rule name
NamedMetas(attr) == SelectSeq(attr.nested, LAMBDA m : m.meta \in {"List", "Path"})

RECURSIVE MetasOfAttrs(_, _)
MetasOfAttrs(attrs, j) ==
    IF j > Len(attrs) THEN <<>>
    ELSE NamedMetas(attrs[j]) \o MetasOfAttrs(attrs, j + 1)

RECURSIVE MetasOfFields(_, _)
MetasOfFields(named, i) ==
    IF i > Len(named) THEN <<>>
    ELSE MetasOfAttrs(named[i].attrs, 1) \o MetasOfFields(named, i + 1)

\* every rule invocation written in the declaration, in written order
Written == MetasOfFields(src.input.named, 1)

RuleNames == ArgKinds \cup {"trim", "to_lower_case"}

NamesUnknownRule ==
    LET W == Written
    IN  \E k \in 1..Len(W) : Last(W[k].segments) \notin RuleNames

OmitsArgument ==
    LET W == Written
    IN  \E k \in 1..Len(W) : Last(W[k].segments) \in ArgKinds /\ W[k].nested = <<>>

UnsupportedShape == src.input.data # "Struct" \/ src.input.fields # "Named"

\* the texts of the definition-time failures
DefinitionErrors ==
    {UnwrapNone, "enums and unions are not supported", "can't validate a tuple struct",
     "can't validate a unit struct", "malformed validation",
     "validations not formatted correctly", "validations must start with #[validate]",
     "rule macro requires 1 or 2 arguments"}
    \cup {"unrecognised attribute: " \o n : n \in {"positive", "default"}}

\* C11: a declaration that names an unknown rule, omits the argument of
\* lt, eq, gt, neq, len_lt, len_eq, len_gt, len_neq or with, or is an enum,
\* a union, a tuple struct or a unit struct never yields a validate routine:
\* the derive stops with a definition-time error and no call ever starts;
\* no call that runs reports one of these failures.
C11_InvalidPlanNeverExecutes ==
    /\ (src.kind = "derive" /\ (UnsupportedShape \/ NamesUnknownRule \/ OmitsArgument)) =>
          /\ phase \in {"source", "failed"}
          /\ phase = "failed" => build_err \in DefinitionErrors
          /\ item = <<>> /\ code = <<>>
          /\ result = None /\ log = <<>>
    /\ phase \in {"running", "returned"} =>
          /\ build_err = ""
          /\ \A n \in 1..Len(errors) : errors[n] \notin DefinitionErrors

\* gt written without its argument stopped the derive
C11_Witness ==
    /\ src.kind = "derive" /\ OmitsArgument /\ ~NamesUnknownRule /\ ~UnsupportedShape
    /\ phase = "failed"
    /\ build_err = UnwrapNone

\* the calls that have returned so far, the last one included
Calls ==
    past \o (IF Returned
             THEN <<Completed([self0 |-> self0, self |-> self, result |-> result])>>
             ELSE <<>>)

\* the messages of the checks that failed in the running call
OwnMessages == [n \in 1..Len(Failed) |-> EvalMsg(code[Failed[n]].msg)]

\* C12: validate is deterministic and keeps nothing between calls: any two
\* calls under one plan that started on equal field values returned equal
\* results and left equal field values, and the error list of a call holds
\* the messages appended during that call only, starting from the empty list.
C12_DeterministicAndStateless ==
    /\ \A a \in 1..Len(Calls) : \A b \in 1..Len(Calls) :
          Calls[a].self0 = Calls[b].self0 =>
             (Calls[a].result = Calls[b].result /\ Calls[a].self = Calls[b].self)
    /\ phase \in {"running", "returned"} => errors = OwnMessages
    /\ (phase = "running" /\ ip = 1) => errors = <<>>

\* the first call passed and transformed; the second failed, and the third,
\* started on the field values the second started on, failed alike
C12_Witness ==
    /\ Returned /\ Len(past) = 2
    /\ past[2].self0 = self0
    /\ past[1].self0 # self0
    /\ past[2].result.tag = "Err"
    /\ result = past[2].result
    /\ past[1].result # result

\* one statement run on entity s with error list errs
StepAlone(st, s, errs) ==
    IF st.stmt = "if_not_push"
    THEN LET r == EvalCond(st.condition, s)
         IN  [self |-> [s EXCEPT ![st.field] = r.value],
              errors |-> IF r.ret THEN errs ELSE Append(errs, EvalMsg(st.msg))]
    ELSE [self |-> [s EXCEPT ![st.field] = ApplyFn(st.fn, s[st.field])],
          errors |-> errs]

\* the entity and the error list after the first k statements of stmts have
\* run, one after the other, on entity e with an empty list
RECURSIVE RunAlone(_, _, _)
RunAlone(stmts, k, e) ==
    IF k = 0 THEN [self |-> e, errors |-> <<>>]
    ELSE CHOOSE after \in {StepAlone(stmts[k], p.self, p.errors) :
                              p \in {RunAlone(stmts, k - 1, e)}} : TRUE

\* what validate returns with the error list errs
ResultOf(errs) == IF errs = <<>> THEN Ok ELSE Err(errs)

\* call c stands where a call running alone on c.self0 would stand, and
\* once returned it has run every statement and returned what that call would
AsIfAlone(c) ==
    c.phase \in {"running", "returned"} =>
       /\ [self |-> c.self, errors |-> c.errors] = RunAlone(code, c.ip - 1, c.self0)
       /\ c.phase = "returned" => (c.ip = Len(code) + 1 /\ c.result = ResultOf(c.errors))

\* C13: two calls on distinct instances sharing one plan do not interfere:
\* under every interleaving of their steps each call returns the result and
\* leaves the entity it would if it ran alone, and no step of either call
\* changes the plan.
C13_ConcurrentCallsDoNotInterfere ==
    [][ /\ phase \in {"built", "running", "returned"} =>
              (src' = src /\ item' = item /\ code' = code)
        /\ AsIfAlone(ThisCall)'
        /\ AsIfAlone(peer)' ]_vars

\* both calls are under way on different field values: the one has failed
\* its check and trimmed its string, the other has passed its check
C13_Witness ==
    /\ phase = "running" /\ ip = 3
    /\ errors # <<>> /\ self.string # self0.string
    /\ peer.phase = "running" /\ peer.ip = 2
    /\ peer.errors = <<>>
    /\ peer.self0 # self0

\* the plan has built-in checks and trim / to_lower_case transforms only
NoWithStep == \A k \in 1..Len(DeclaredPlan) : DeclaredPlan[k].name # "with"

\* C16: re-validation reaches a fixed point after one call: under a plan of
\* built-in checks and trim / to_lower_case transforms, the second and every
\* later call on an instance leave each field as the first call left it, and
\* all return the result the second call returned.
C16_RevalidationFixedPoint ==
    NoWithStep =>
       \A k \in 2..Len(Calls) :
          /\ Calls[k].self0 = Calls[1].self
          /\ Calls[k].self = Calls[1].self
          /\ Calls[k].result = Calls[2].result

\* [len_lt(2), trim] failed on a padded string and trimmed it; the second
\* and the third call passed and left the string alone
C16_Witness ==
    /\ NoWithStep /\ Len(Calls) = 3
    /\ Calls[1].result.tag = "Err" /\ Calls[1].self # Calls[1].self0
    /\ Calls[2].result = Ok /\ Calls[3].result = Ok
    /\ Calls[3].self = Calls[1].self

BuiltinChecks == ArgKinds \ {"with"}

Transforms == {"trim", "to_lower_case"}

\* the error list is left alone or gains one message at its end
AtMostOneAppended ==
    \/ errors' = errors
    \/ Len(errors') = Len(errors) + 1 /\ SubSeq(errors', 1, Len(errors)) = errors

\* no field other than f changes
OnlyFieldMayChange(f) == \A g \in DOMAIN self : g # f => self'[g] = self[g]

\* C15: frame conditions of the step classes: a built-in check step leaves
\* every field unchanged and appends at most one message; a transform step
\* changes at most the field it is attached to and never the error list; a
\* with step changes at most its field and appends at most one message, and
\* no other step both changes a field and appends a message.
C15_StepFrames ==
    [][ DerivedStepAt =>
           LET r == DeclaredPlan[ip]
           IN  /\ r.name \in BuiltinChecks => (self' = self /\ AtMostOneAppended)
               /\ r.name \in Transforms => (OnlyFieldMayChange(r.field) /\ errors' = errors)
               /\ r.name = "with" => (OnlyFieldMayChange(r.field) /\ AtMostOneAppended)
               /\ (self' # self /\ errors' # errors) => r.name = "with"
               /\ r.name \in BuiltinChecks \cup Transforms \cup {"with"} ]_vars

\* a check failed and left the entity as it was, a transform changed its
\* field, and a with step changed its field
C15_Witness ==
    /\ Returned /\ src.kind = "derive" /\ Len(log) = 5
    /\ DeclaredPlan[2].name = "len_lt" /\ ~log[2].ret /\ log[3].pre = log[2].pre
    /\ DeclaredPlan[3].name = "trim" /\ log[4].pre.string # log[3].pre.string
    /\ DeclaredPlan[5].name = "with" /\ self.others # log[5].pre.others
    /\ Len(errors) = 2

\* attribute a is a list whose path is the identifier validate
IsValidateList(a) == a.meta = "List" /\ a.path = <<"validate">>

\* some attribute of some field is a bare path, a name-value attribute or a
\* list with another name
HasForeignAttribute ==
    \E i \in 1..Len(src.input.named) : \E j \in 1..Len(src.input.named[i].attrs) :
       ~IsValidateList(src.input.named[i].attrs[j])

\* C19: the derive collects the rules of every attribute of a field in
\* written order; it fails at definition time when any attribute of any field
\* is not a validate(...) list, even beside well-formed rules; a field with
\* no attribute contributes no step; and an entity whose fields contribute no
\* step validates to Ok(()) with no field changed.
C19_AttributesCollectedOrRejected ==
    src.kind = "derive" =>
       /\ (~UnsupportedShape /\ HasForeignAttribute) =>
             /\ phase \in {"source", "failed"}
             /\ phase = "failed" => build_err \in DefinitionErrors
             /\ item = <<>> /\ code = <<>>
       /\ phase \in {"built", "running", "returned"} =>
             LET plan == DeclaredPlan
                 named == src.input.named
             IN  /\ Len(code) = Len(plan)
                 /\ \A k \in 1..Len(code) :
                       /\ code[k].field = plan[k].field
                       /\ IF plan[k].name \in Transforms
                          THEN code[k].stmt = "assign"
                          ELSE /\ code[k].stmt = "if_not_push"
                               /\ EvalMsg(code[k].msg) = CatalogMessage(plan[k])
                 /\ \A i \in 1..Len(named) :
                       named[i].attrs = <<>> =>
                          \A k \in 1..Len(code) : code[k].field # named[i].ident
                 /\ (Returned /\ Len(plan) = 0) => (result = Ok /\ self = self0 /\ log = <<>>)

\* the rules of two attributes of one field ran in written order
C19_Witness ==
    /\ Returned /\ src.kind = "derive"
    /\ \E i \in 1..Len(src.input.named) : Len(src.input.named[i].attrs) = 2
    /\ Len(log) = 2
    /\ code[1].stmt = "assign" /\ code[1].fn = "trim"
    /\ code[2].stmt = "if_not_push" /\ code[2].condition.lhs = "len"
    /\ self.string # self0.string /\ ~log[2].ret

\* the argument a compiled check carries: the compared value or the predicate
BoundArgument(c) == IF c.e = "call" THEN c.op ELSE c.rhs

\* the declaration has none of the defects the derive rejects
WellFormedDeclaration ==
    /\ ~UnsupportedShape /\ ~HasForeignAttribute
    /\ ~NamesUnknownRule /\ ~OmitsArgument
    /\ \A i \in 1..Len(src.input.named) : \A j \in 1..Len(src.input.named[i].attrs) :
          \A l \in 1..Len(src.input.named[i].attrs[j].nested) :
             /\ src.input.named[i].attrs[j].nested[l].meta \in {"List", "Path"}
             /\ (src.input.named[i].attrs[j].nested[l].meta = "List"
                   => src.input.named[i].attrs[j].nested[l].nested # <<>>)

\* C20: the argument bound to a compiled step is the last one written in its
\* invocation; earlier arguments, an argument given to trim or to_lower_case
\* and leading path segments of the rule name are dropped without a
\* definition-time error: a compiled trim / to_lower_case step carries no
\* argument and every other compiled step carries exactly one.
C20_LastArgumentBound ==
    src.kind = "derive" =>
       /\ phase = "failed" => ~WellFormedDeclaration
       /\ phase \in {"built", "running", "returned"} =>
             LET W == Written
             IN  /\ Len(code) = Len(W) /\ Len(item) = Len(W)
                 /\ \A k \in 1..Len(W) :
                       LET name == Last(W[k].segments)
                       IN  IF name \in Transforms
                           THEN /\ item[k] = Assign(code[k].field,
                                                    IF name = "trim" THEN "trim"
                                                    ELSE "to_lowercase")
                                /\ code[k].stmt = "assign" /\ code[k].condition = <<>>
                           ELSE /\ name \in ArgKinds
                                /\ Len(item[k].args) = 2
                                /\ BoundArgument(item[k].args[1]) = Last(W[k].nested)
                                /\ code[k].stmt = "if_not_push"
                                /\ code[k].condition = item[k].args[1]

\* lt(3, 1) was compiled to a comparison with 1 and failed on the value 2,
\* and trim(1) was compiled to the plain assignment
C20_Witness ==
    /\ Returned /\ src.kind = "derive"
    /\ Len(Written) = 2
    /\ Written[1].nested = <<"3", "1">> /\ Last(Written[1].segments) = "lt"
    /\ code[1].condition.rhs = "1" /\ self0.value = 2 /\ ~log[1].ret
    /\ Written[2].nested = <<"1">> /\ Last(Written[2].segments) = "trim"
    /\ code[2].stmt = "assign" /\ self.string # self0.string

\* from_data has returned for a request whose inner extraction succeeded
Validated == stage \in {"done", "handled", "responded"} /\ inner.tag = "Success"

\* C14: Valid<T> runs validate on the extracted value before the handler:
\* when validate returns Err the outcome is Failure with status BadRequest
\* carrying exactly the messages of validate and the handler is not invoked;
\* when it returns Ok the outcome is Success carrying the entity as validate
\* left it, and that is what the handler is invoked with.
C14_ValidRunsValidateBeforeHandler ==
    /\ Validated =>
          /\ phase = "returned" /\ self0 = inner.value /\ Len(log) = Len(code)
          /\ result.tag = "Err" =>
                /\ outcome = Failure("BadRequest", ValidationError(result.list))
                /\ outcome.error.list = RunAlone(code, Len(code), inner.value).errors
                /\ handled.tag # "Invoked"
                /\ stage = "responded" => handled.status = "BadRequest"
          /\ result = Ok =>
                /\ outcome = Success(self)
                /\ outcome.value = RunAlone(code, Len(code), inner.value).self
          /\ result.tag \in {"Ok", "Err"}
    /\ handled.tag = "Invoked" =>
          /\ Validated /\ result = Ok
          /\ handled.value = self

\* a request was answered BadRequest with two messages, the handler not
\* invoked, after validate had changed the entity
C14_Witness ==
    /\ stage = "responded" /\ inner.tag = "Success"
    /\ outcome.tag = "Failure" /\ outcome.status = "BadRequest"
    /\ outcome.error.variant = "ValidationError" /\ Len(outcome.error.list) = 2
    /\ handled.tag = "Rejected"
    /\ self # inner.value

\* C17: a Deref/DerefMut wrapper validates by delegation: validate called
\* on the wrapper, through any number of wrappers, returns the result and
\* leaves the inner value as validate called on the inner value itself does,
\* with no message added or removed.
C17_WrapperDelegates ==
    (stage = "validating" /\ phase = "returned") =>
       /\ self0 = inner.value
       /\ result = ResultOf(RunAlone(code, Len(code), inner.value).errors)
       /\ self = RunAlone(code, Len(code), inner.value).self
       /\ layer \in 0..wraps

\* validate called through two wrappers has returned Err to the outermost
\* caller and the inner value is changed
C17_Witness ==
    /\ stage = "validating" /\ phase = "returned"
    /\ wraps = 2 /\ layer = 0
    /\ result.tag = "Err" /\ Len(result.list) = 2
    /\ self # inner.value

\* C18: when the inner extractor fails or forwards, validate is not called
\* and the inner outcome is passed on, a Failure with the inner status and
\* the inner error as FromDataError, a Forward as Forward; and get_t does not
\* panic in from_data, every failure transform hands over being the
\* FromDataError variant.
C18_InnerOutcomePropagated ==
    /\ stage # "panicked"
    /\ xform.out.tag = "Failure" =>
          /\ xform.out.error.variant = "FromDataError"
          /\ stage # "transformed" => inner = Failure(xform.out.status, InnerError(xform.out.error.t))
    /\ xform.out.tag = "Forward" => (stage # "transformed" => inner = Forward)
    /\ inner.tag \in {"Failure", "Forward"} =>
          /\ phase = "built" /\ log = <<>> /\ result = None /\ layer = 0
          /\ outcome = IF inner.tag = "Failure"
                       THEN Failure(inner.status, FromDataError(inner.error.t))
                       ELSE Forward
          /\ handled.tag # "Invoked"

\* the transform of the inner extractor failed and the request was answered
\* with its status, the error wrapped, validate never entered
C18_Witness ==
    /\ stage = "responded"
    /\ xform.out.tag = "Failure" /\ inner.tag = "Failure"
    /\ outcome = Failure("UnprocessableEntity", FromDataError("Io"))
    /\ handled.status = "UnprocessableEntity"
    /\ phase = "built"

====
